---- MODULE Spec2Model ----
(***************************************************************************)
(* Model of the numeric helpers of src/lib/funs.ts: invertRange,           *)
(* prettyBreaks, convertToSuperscript and exponentialToSuperscript.        *)
(*                                                                         *)
(* A JavaScript number is modelled in one of two formats.                   *)
(*  - binary64: a record [s, m, e], the finite IEEE-754 double s*m*2^e;    *)
(*    every operation rounds its exact result to the nearest double, ties  *)
(*    to even, as the JavaScript operators do.                             *)
(*  - exact: a record [n, d], the rational n/d (d > 0, lowest terms), on   *)
(*    which arithmetic is exact: the reading "in exact arithmetic" of the  *)
(*    algorithms.                                                          *)
(* The special values are shared: +Infinity = 1/0, -Infinity = -1/0 and    *)
(* NaN = 0/0, with the IEEE-754 rules for a zero divisor, an infinity or a *)
(* NaN.  A call's arguments are all of one format; an integer literal of   *)
(* the source is exact and is converted when it meets a binary64 operand.  *)
(*                                                                         *)
(* A JavaScript string is modelled as a sequence of one-character strings. *)
(* The non-ASCII characters of the source are written as ASCII tokens:     *)
(* "TIMES" for the multiplication sign and "sup-", "sup0" .. "sup9" for    *)
(* the superscript characters.                                             *)
(***************************************************************************)
EXTENDS Integers, Sequences, FiniteSets, TLC

(***************************************************************************)
(* Bounds of the checked input space.                                      *)
(***************************************************************************)
\* exact min and max range over a/q with a in -MaxAbs..MaxAbs, q in Dens
MaxAbs == 12
\* binary64 min and max range over the integers -MaxAbs64..MaxAbs64
MaxAbs64 == 10
\* n ranges over -2..MaxN
MaxN == 5
\* strings passed to the superscript functions have at most MaxLen characters
MaxLen == 4
\* exponent strings over the whole superscript table have at most MaxExp
\* characters
MaxExp == 2
\* the clock of the throttled function reads 0..MaxTime
MaxTime == 5
\* the throttled function is called at most MaxCalls times
MaxCalls == 3
\* the period of throttle ranges over -1..MaxPeriod
MaxPeriod == 3
\* the arrays passed to orderBy have at most MaxArray elements
MaxArray == 3
\* start and end of seq range over -MaxSeq..MaxSeq, length over 0..MaxSeq
MaxSeq == 3

(***************************************************************************)
(* Exact rationals and the special values.                                 *)
(***************************************************************************)
Abs(i) == IF i < 0 THEN -i ELSE i

Sign(i) == IF i < 0 THEN -1 ELSE IF i > 0 THEN 1 ELSE 0

RECURSIVE GCD(_, _)
GCD(a, b) == IF b = 0 THEN a ELSE GCD(b, a % b)

\* the number n/d, d > 0, in lowest terms
Rat(n, d) ==
  LET g == GCD(Abs(n), d)
  IN  [n |-> n \div g, d |-> d \div g]

\* an integer literal
Int2Num(i) == [n |-> i, d |-> 1]

PosInf == [n |-> 1, d |-> 0]
NegInf == [n |-> -1, d |-> 0]
NaN == [n |-> 0, d |-> 0]

\* the infinity of sign s (s # 0)
InfOfSign(s) == IF s > 0 THEN PosInf ELSE NegInf

RECURSIVE IntPow10(_)
IntPow10(k) == IF k = 0 THEN 1 ELSE 10 * IntPow10(k - 1)

\* the integer e with 10^e <= n/d < 10^(e+1), searched from the guess e
RECURSIVE Log10From(_, _, _)
Log10From(n, d, e) ==
  IF e >= 0
    THEN IF n < d * IntPow10(e) THEN Log10From(n, d, e - 1)
         ELSE IF n >= d * IntPow10(e + 1) THEN Log10From(n, d, e + 1)
         ELSE e
    ELSE IF n * IntPow10(-e) < d THEN Log10From(n, d, e - 1)
         ELSE IF n * IntPow10(-e - 1) >= d THEN Log10From(n, d, e + 1)
         ELSE e

(***************************************************************************)
(* Natural numbers of any size: little-endian sequences of limbs in        *)
(* 0..Base-1 without leading zero limbs (the empty sequence is zero).      *)
(***************************************************************************)
RECURSIVE IntPow2(_)
IntPow2(k) == IF k = 0 THEN 1 ELSE 2 * IntPow2(k - 1)

\* limbs of 15 binary digits: the product of two limbs fits a 32-bit integer
LimbBits == 3 * 5
Base == IntPow2(LimbBits)

RECURSIVE BNorm(_)
BNorm(a) ==
  IF a = <<>> THEN <<>>
  ELSE IF a[Len(a)] = 0 THEN BNorm(SubSeq(a, 1, Len(a) - 1))
  ELSE a

RECURSIVE BFromInt(_)
BFromInt(i) == IF i = 0 THEN <<>> ELSE <<i % Base>> \o BFromInt(i \div Base)

RECURSIVE BToInt(_)
BToInt(a) == IF a = <<>> THEN 0 ELSE a[1] + Base * BToInt(Tail(a))

Limb(a, i) == IF i <= Len(a) THEN a[i] ELSE 0

\* -1, 0 or 1 as a < b, a = b or a > b, deciding from limb i downwards
RECURSIVE BCmpFrom(_, _, _)
BCmpFrom(a, b, i) ==
  IF i = 0 THEN 0
  ELSE IF a[i] < b[i] THEN -1
  ELSE IF a[i] > b[i] THEN 1
  ELSE BCmpFrom(a, b, i - 1)

BCmp(a, b) ==
  IF Len(a) < Len(b) THEN -1
  ELSE IF Len(a) > Len(b) THEN 1
  ELSE BCmpFrom(a, b, Len(a))

RECURSIVE BAddFrom(_, _, _, _)
BAddFrom(a, b, i, carry) ==
  IF i > Len(a) /\ i > Len(b)
    THEN (IF carry = 0 THEN <<>> ELSE <<carry>>)
    ELSE LET t == Limb(a, i) + Limb(b, i) + carry
         IN  <<t % Base>> \o BAddFrom(a, b, i + 1, t \div Base)

BAdd(a, b) == BAddFrom(a, b, 1, 0)

\* a - b for a >= b
RECURSIVE BSubFrom(_, _, _, _)
BSubFrom(a, b, i, borrow) ==
  IF i > Len(a) THEN <<>>
  ELSE LET t == a[i] - Limb(b, i) - borrow
       IN  IF t < 0 THEN <<t + Base>> \o BSubFrom(a, b, i + 1, 1)
           ELSE <<t>> \o BSubFrom(a, b, i + 1, 0)

BSub(a, b) == BNorm(BSubFrom(a, b, 1, 0))

\* a * k for 0 <= k < Base
RECURSIVE BMulSmallFrom(_, _, _, _)
BMulSmallFrom(a, k, i, carry) ==
  IF i > Len(a)
    THEN (IF carry = 0 THEN <<>> ELSE <<carry>>)
    ELSE LET t == a[i] * k + carry
         IN  <<t % Base>> \o BMulSmallFrom(a, k, i + 1, t \div Base)

BMulSmall(a, k) == IF k = 0 THEN <<>> ELSE BMulSmallFrom(a, k, 1, 0)

RECURSIVE BMulFrom(_, _, _)
BMulFrom(a, b, i) ==
  IF i > Len(b) THEN <<>>
  ELSE BAdd(BMulSmall(a, b[i]), <<0>> \o BMulFrom(a, b, i + 1))

BMul(a, b) == BNorm(BMulFrom(a, b, 1))

\* a * 2^k
BShl(a, k) ==
  IF a = <<>> THEN <<>>
  ELSE [i \in 1..(k \div LimbBits) |-> 0] \o BMulSmall(a, IntPow2(k % LimbBits))

RECURSIVE IntBitLen(_)
IntBitLen(i) == IF i = 0 THEN 0 ELSE 1 + IntBitLen(i \div 2)

\* the number of binary digits of a
BBitLen(a) == IF a = <<>> THEN 0 ELSE LimbBits * (Len(a) - 1) + IntBitLen(a[Len(a)])

BIsOdd(a) == a # <<>> /\ a[1] % 2 = 1

\* the largest digit q with q * d <= r, searched downwards from the guess q
RECURSIVE BDigitFrom(_, _, _)
BDigitFrom(r, d, q) ==
  IF BCmp(BMulSmall(d, q), r) > 0 THEN BDigitFrom(r, d, q - 1) ELSE q

\* floor(r / d) for r < d * Base, d with a top limb >= Base / 2
BDigit(r, d) ==
  IF BCmp(r, d) < 0 THEN 0
  ELSE LET m == Len(d)
           top == Limb(r, m + 1) * Base + r[m]
           guess == top \div d[m]
       IN  BDigitFrom(r, d, IF guess > Base - 1 THEN Base - 1 ELSE guess)

\* long division of the limbs a[1..i] below the remainder r so far
RECURSIVE BDivFrom(_, _, _, _, _)
BDivFrom(a, d, i, r, q) ==
  IF i = 0 THEN [q |-> BNorm(q), r |-> r]
  ELSE LET r1 == BNorm(<<a[i]>> \o r)
           digit == BDigit(r1, d)
       IN  BDivFrom(a, d, i - 1, BSub(r1, BMulSmall(d, digit)), <<digit>> \o q)

\* [q, r] with a = q * d + r and r < d, for d with a top limb >= Base / 2
BDivMod(a, d) == BDivFrom(a, d, Len(a), <<>>, <<>>)

(***************************************************************************)
(* Finite binary64 numbers: [s, m, e] is s * m * 2^e with s in {1, -1} and *)
(* 2^52 <= m < 2^53; zero is [s |-> 1, m |-> <<>>, e |-> 0].  Subnormal    *)
(* numbers, overflow and the sign of zero are not modelled.                *)
(***************************************************************************)
\* the binary digits of a binary64 significand
Precision == 53

F64Zero == [s |-> 1, m |-> <<>>, e |-> 0]

\* the k for which the top limb of d * 2^k is at least Base / 2
NormShift(d) == (LimbBits - (BBitLen(d) % LimbBits)) % LimbBits

\* s * m * 2^e for a rounded m <= 2^53
Renorm(s, e, m) ==
  IF BBitLen(m) > Precision
    THEN [s |-> s, m |-> BShl(<<1>>, Precision - 1), e |-> e + 1]
    ELSE [s |-> s, m |-> m, e |-> e]

\* s * (q + f) * 2^e rounded, where c is -1, 0 or 1 as the fraction f is
\* below, at or above one half
RoundUp(s, e, q, c) ==
  IF c > 0 \/ (c = 0 /\ BIsOdd(q)) THEN Renorm(s, e, BAdd(q, <<1>>))
  ELSE [s |-> s, m |-> q, e |-> e]

RoundQR(s, e, d, qr) == RoundUp(s, e, qr.q, BCmp(BShl(qr.r, 1), d))

\* s * (n / d) * 2^e rounded, for 2^52 <= n / d < 2^53 and d with a top limb
\* of at least Base / 2
RoundDivide(s, e, n, d) == RoundQR(s, e, d, BDivMod(n, d))

\* s * (n / d) * 2^e rounded, for 2^52 <= n / d < 2^53
RoundNorm(s, e, n, d) ==
  RoundDivide(s, e, BShl(n, NormShift(d)), BShl(d, NormShift(d)))

\* s * (n / d) * 2^e rounded, for 2^52 <= n / d < 2^54
RoundScaled(s, e, n, d) ==
  IF BCmp(n, BShl(d, Precision)) >= 0 THEN RoundNorm(s, e + 1, n, BShl(d, 1))
  ELSE RoundNorm(s, e, n, d)

\* s * (n / d) * 2^e rounded, sh the shift that brings n / d into 2^52 .. 2^54
RoundAligned(s, e, n, d, sh) ==
  IF sh >= 0 THEN RoundScaled(s, e - sh, BShl(n, sh), d)
  ELSE RoundScaled(s, e - sh, n, BShl(d, -sh))

\* s * (n / d) * 2^e rounded to the nearest binary64, ties to even
RoundRatio(s, n, d, e) ==
  IF n = <<>> THEN F64Zero
  ELSE RoundAligned(s, e, n, d, Precision - (BBitLen(n) - BBitLen(d)))

\* the binary64 nearest to the rational i / j (j > 0)
F64OfRatio(i, j) ==
  RoundRatio(IF i < 0 THEN -1 ELSE 1, BFromInt(IF i < 0 THEN -i ELSE i), BFromInt(j), 0)

F64Sign(x) == IF x.m = <<>> THEN 0 ELSE x.s

F64Neg(x) == IF x.m = <<>> THEN x ELSE [x EXCEPT !.s = -x.s]

\* |x| < |y| for x, y nonzero
F64AbsLt(x, y) ==
  x.e + BBitLen(x.m) < y.e + BBitLen(y.m) \/ (x.e = y.e /\ BCmp(x.m, y.m) < 0)

\* x < y
F64Lt(x, y) ==
  IF F64Sign(x) # F64Sign(y) THEN F64Sign(x) < F64Sign(y)
  ELSE IF F64Sign(x) = 0 THEN FALSE
  ELSE IF F64Sign(x) > 0 THEN F64AbsLt(x, y)
  ELSE F64AbsLt(y, x)

\* x + y for the magnitudes nx, ny of x, y in units of 2^e
F64AddAligned(sx, sy, nx, ny, e) ==
  RoundRatio(IF sx = sy \/ BCmp(nx, ny) >= 0 THEN sx ELSE sy,
             IF sx = sy THEN BAdd(nx, ny)
             ELSE IF BCmp(nx, ny) >= 0 THEN BSub(nx, ny)
             ELSE BSub(ny, nx),
             <<1>>, e)

F64Add(x, y) ==
  IF x.m = <<>> THEN y
  ELSE IF y.m = <<>> THEN x
  ELSE IF x.e < y.e THEN F64AddAligned(x.s, y.s, x.m, BShl(y.m, y.e - x.e), x.e)
  ELSE F64AddAligned(x.s, y.s, BShl(x.m, x.e - y.e), y.m, y.e)

F64Mul(x, y) == RoundRatio(x.s * y.s, BMul(x.m, y.m), <<1>>, x.e + y.e)

\* x / y for y nonzero
F64Div(x, y) == RoundRatio(x.s * y.s, x.m, y.m, x.e - y.e)

\* floor(s * (q + r / d)) as [s, q]: the integer s * q
F64FloorQR(s, qr) ==
  IF s > 0 \/ qr.r = <<>> THEN [s |-> s, q |-> qr.q]
  ELSE [s |-> s, q |-> BAdd(qr.q, <<1>>)]

\* floor(s * m / d) as [s, q]
F64FloorRatio(s, m, d) ==
  F64FloorQR(s, BDivMod(BShl(m, NormShift(d)), BShl(d, NormShift(d))))

\* floor(x) as [s, q]
F64FloorInt(x) ==
  IF x.m = <<>> THEN [s |-> 1, q |-> <<>>]
  ELSE IF x.e >= 0 THEN [s |-> x.s, q |-> BShl(x.m, x.e)]
  ELSE F64FloorRatio(x.s, x.m, BShl(<<1>>, -x.e))

F64OfInt(f) == RoundRatio(f.s, f.q, <<1>>, 0)

F64Floor(x) == F64OfInt(F64FloorInt(x))

F64Ceil(x) == F64Neg(F64Floor(F64Neg(x)))

\* floor(s * m * 2^e + 1/2) for e < 0, the sum taken exactly; half is 2^(-e-1)
F64RoundHalf(s, m, e, half) ==
  IF s > 0 THEN F64FloorRatio(1, BAdd(m, half), BShl(half, 1))
  ELSE IF BCmp(half, m) >= 0 THEN F64FloorRatio(1, BSub(half, m), BShl(half, 1))
  ELSE F64FloorRatio(-1, BSub(m, half), BShl(half, 1))

\* Math.round(x) = floor(x + 1/2)
F64Round(x) ==
  IF x.m = <<>> \/ x.e >= 0 THEN x
  ELSE F64OfInt(F64RoundHalf(x.s, x.m, x.e, BShl(<<1>>, -x.e - 1)))

\* the integer value of an integral x of small magnitude
F64ToInt(x) == LET f == F64FloorInt(x) IN f.s * BToInt(f.q)

\* x >= 10^k for x > 0, decided exactly
F64GePow10(x, k) ==
  BCmp(BShl(BMul(x.m, BFromInt(IntPow10(IF k < 0 THEN -k ELSE 0))),
            IF x.e > 0 THEN x.e ELSE 0),
       BShl(BFromInt(IntPow10(IF k > 0 THEN k ELSE 0)),
            IF x.e < 0 THEN -x.e ELSE 0)) >= 0

\* the integer k with 10^k <= x < 10^(k+1) for x > 0, searched from the guess k
RECURSIVE F64Log10From(_, _)
F64Log10From(x, k) ==
  IF ~F64GePow10(x, k) THEN F64Log10From(x, k - 1)
  ELSE IF F64GePow10(x, k + 1) THEN F64Log10From(x, k + 1)
  ELSE k

(***************************************************************************)
(* The operators of JavaScript numbers, on either format.                  *)
(***************************************************************************)
IsF64(x) == "m" \in DOMAIN x
IsNaN(x) == ~IsF64(x) /\ x.d = 0 /\ x.n = 0
IsInf(x) == ~IsF64(x) /\ x.d = 0 /\ x.n # 0
IsFinite(x) == IsF64(x) \/ x.d > 0

\* -1, 0 or 1; the sign of an infinity too
SignOf(x) == IF IsF64(x) THEN F64Sign(x) ELSE Sign(x.n)

ToF64(x) == IF IsF64(x) THEN x ELSE F64OfRatio(x.n, x.d)

\* the integer value of an integral finite x
ToInt(x) == IF IsF64(x) THEN F64ToInt(x) ELSE x.n \div x.d

\* unary minus
Neg(x) == IF IsF64(x) THEN F64Neg(x) ELSE [n |-> -x.n, d |-> x.d]

\* x + y
Add(x, y) ==
  IF IsNaN(x) \/ IsNaN(y) THEN NaN
  ELSE IF IsInf(x) /\ IsInf(y) THEN (IF x.n = y.n THEN x ELSE NaN)
  ELSE IF IsInf(x) THEN x
  ELSE IF IsInf(y) THEN y
  ELSE IF IsF64(x) \/ IsF64(y) THEN F64Add(ToF64(x), ToF64(y))
  ELSE Rat(x.n * y.d + y.n * x.d, x.d * y.d)

\* x - y
Sub(x, y) == Add(x, Neg(y))

\* x * y
Mul(x, y) ==
  IF IsNaN(x) \/ IsNaN(y) THEN NaN
  ELSE IF IsInf(x) \/ IsInf(y)
       THEN (IF SignOf(x) = 0 \/ SignOf(y) = 0 THEN NaN
             ELSE InfOfSign(SignOf(x) * SignOf(y)))
  ELSE IF IsF64(x) \/ IsF64(y) THEN F64Mul(ToF64(x), ToF64(y))
  ELSE Rat(x.n * y.n, x.d * y.d)

\* x / y
Div(x, y) ==
  IF IsNaN(x) \/ IsNaN(y) THEN NaN
  ELSE IF IsInf(x) /\ IsInf(y) THEN NaN
  ELSE IF IsInf(x) THEN (IF SignOf(y) < 0 THEN Neg(x) ELSE x)
  ELSE IF IsInf(y) THEN Int2Num(0)
  ELSE IF SignOf(y) = 0 THEN (IF SignOf(x) = 0 THEN NaN ELSE InfOfSign(SignOf(x)))
  ELSE IF IsF64(x) \/ IsF64(y) THEN F64Div(ToF64(x), ToF64(y))
  ELSE Rat(Sign(y.n) * x.n * y.d, x.d * Abs(y.n))

\* x < y (false as soon as one side is NaN)
Lt(x, y) ==
  IF IsNaN(x) \/ IsNaN(y) THEN FALSE
  ELSE IF IsInf(x) THEN x.n < 0 /\ ~(IsInf(y) /\ y.n < 0)
  ELSE IF IsInf(y) THEN y.n > 0
  ELSE IF IsF64(x) \/ IsF64(y) THEN F64Lt(ToF64(x), ToF64(y))
  ELSE x.n * y.d < y.n * x.d

\* x <= y
Le(x, y) == ~IsNaN(x) /\ ~IsNaN(y) /\ ~Lt(y, x)

\* x === y on numbers
NumEq(x, y) == Le(x, y) /\ Le(y, x)

\* Math.floor
Floor(x) ==
  IF IsF64(x) THEN F64Floor(x)
  ELSE IF x.d > 0 THEN Int2Num(x.n \div x.d)
  ELSE x

\* Math.ceil
Ceil(x) ==
  IF IsF64(x) THEN F64Ceil(x)
  ELSE IF x.d > 0 THEN Int2Num(-((-x.n) \div x.d))
  ELSE x

\* Math.round: the nearest integer, a half rounded towards +Infinity
Round(x) ==
  IF IsF64(x) THEN F64Round(x)
  ELSE IF x.d > 0 THEN Int2Num((2 * x.n + x.d) \div (2 * x.d))
  ELSE x

\* 10 ** k in the format of b
Pow10Int(b, k) ==
  IF IsF64(b)
    THEN (IF k >= 0 THEN F64OfRatio(IntPow10(k), 1) ELSE F64OfRatio(1, IntPow10(-k)))
    ELSE (IF k >= 0 THEN Int2Num(IntPow10(k)) ELSE Rat(1, IntPow10(-k)))

\* 10 ** b for b an integer, an infinity or NaN
Pow10(b) ==
  IF IsNaN(b) THEN NaN
  ELSE IF IsInf(b) THEN (IF b.n > 0 THEN PosInf ELSE Int2Num(0))
  ELSE Pow10Int(b, ToInt(b))

\* Math.floor(Math.log10(x)); Math.log10 is taken to be accurate enough for
\* the floor to be that of the true logarithm
FloorLog10(x) ==
  IF IsNaN(x) THEN NaN
  ELSE IF IsInf(x) THEN (IF x.n > 0 THEN PosInf ELSE NaN)
  ELSE IF SignOf(x) < 0 THEN NaN
  ELSE IF SignOf(x) = 0 THEN NegInf
  ELSE IF IsF64(x) THEN F64OfRatio(F64Log10From(x, 0), 1)
  ELSE Int2Num(Log10From(x.n, x.d, 0))

(***************************************************************************)
(* invertRange                                                             *)
(***************************************************************************)
\* invertWith with the sign of the product in newMax slipped
invertWithSignSlip(min, rangeInverse) ==
  << Mul(Neg(min), rangeInverse),
     Add(rangeInverse, Mul(min, rangeInverse)),
     rangeInverse >>

invertWith(min, rangeInverse) ==
  << Mul(Neg(min), rangeInverse),
     Sub(rangeInverse, Mul(min, rangeInverse)),
     rangeInverse >>

\* invertRange with the operands of the subtraction exchanged
invertRangeReversed(min, max) == invertWith(min, Div(Int2Num(1), Sub(min, max)))

invertRange(min, max) == invertWith(min, Div(Int2Num(1), Sub(max, min)))

(***************************************************************************)
(* prettyBreaks                                                            *)
(***************************************************************************)
neatUnits == <<1, 2, 4, 5, 10>>

\* x ** 2
Square(x) == Mul(x, x)

\* the loop "find the nearest neat unit to the gross unit", from index i on,
\* with the current values of minDist and neatValue
RECURSIVE nearestNeat(_, _, _, _, _)

\* one iteration of that loop with "<=" for "<": the last minimum is kept
nearestNeatStepLast(i, minDist, neatValue, base, unitGross, dist) ==
  IF Le(dist, minDist)
    THEN nearestNeat(i + 1, dist, neatUnits[i], base, unitGross)
    ELSE nearestNeat(i + 1, minDist, neatValue, base, unitGross)

\* one iteration of that loop, dist the distance of neatUnits[i]
nearestNeatStep(i, minDist, neatValue, base, unitGross, dist) ==
  IF Lt(dist, minDist)
    THEN nearestNeat(i + 1, dist, neatUnits[i], base, unitGross)
    ELSE nearestNeat(i + 1, minDist, neatValue, base, unitGross)

nearestNeat(i, minDist, neatValue, base, unitGross) ==
  IF i > Len(neatUnits) THEN neatValue
  ELSE nearestNeatStep(i, minDist, neatValue, base, unitGross,
         Square(Sub(Mul(Int2Num(neatUnits[i]), Pow10(base)), unitGross)))

\* the constants prettyBreaks computes before its second loop, one operator
\* for each const of the source, in the order of the source
localsNewN(unitGross, base, neatValue, unitNeat, minNeat, maxNeat) ==
  [unitGross |-> unitGross, base |-> base, neatValue |-> neatValue,
   unitNeat |-> unitNeat, minNeat |-> minNeat, maxNeat |-> maxNeat,
   newN |-> Round(Div(Sub(maxNeat, minNeat), unitNeat))]

localsNeat(min, max, unitGross, base, neatValue, unitNeat) ==
  localsNewN(unitGross, base, neatValue, unitNeat,
             Mul(Ceil(Div(min, unitNeat)), unitNeat),
             Mul(Floor(Div(max, unitNeat)), unitNeat))

localsUnitNeat(min, max, unitGross, base, neatValue) ==
  localsNeat(min, max, unitGross, base, neatValue,
             Mul(Pow10(base), Int2Num(neatValue)))

localsBase(min, max, unitGross, base) ==
  localsUnitNeat(min, max, unitGross, base,
                 nearestNeat(1, PosInf, 0, base, unitGross))

localsUnitGross(min, max, unitGross) ==
  localsBase(min, max, unitGross, FloorLog10(unitGross))

prettyLocals(min, max, n) == localsUnitGross(min, max, Div(Sub(max, min), n))

\* the number of iterations of "for (let i = 0; i < newN + 1; i++)" for the
\* value limit of newN + 1, which is finite or NaN; i < NaN is false
loopCount(limit) ==
  IF IsFinite(limit) /\ Lt(Int2Num(0), limit) THEN ToInt(Ceil(limit)) ELSE 0

\* emitBreaks without the trailing breaks.push(maxNeat)
emitBreaksNoDuplicate(minNeat, maxNeat, unitNeat, newN) ==
  [i \in 1..loopCount(Add(newN, Int2Num(1))) |->
     Add(minNeat, Mul(Int2Num(i - 1), unitNeat))]

\* the second loop and the trailing breaks.push(maxNeat)
emitBreaks(minNeat, maxNeat, unitNeat, newN) ==
  [i \in 1..loopCount(Add(newN, Int2Num(1))) |->
     Add(minNeat, Mul(Int2Num(i - 1), unitNeat))] \o <<maxNeat>>

breaksOf(v) == emitBreaks(v.minNeat, v.maxNeat, v.unitNeat, v.newN)

prettyBreaks(min, max, n) == breaksOf(prettyLocals(min, max, n))

(***************************************************************************)
(* convertToSuperscript and exponentialToSuperscript                       *)
(***************************************************************************)
\* a JavaScript value that is a string or undefined
Str(s) == [t |-> "string", s |-> s]
Undefined == [t |-> "undefined", s |-> <<>>]

\* the outcome of a call
Return(v) == [kind |-> "return", value |-> v]
Throw(e) == [kind |-> "throw", value |-> e]

\* the table sups with "+" given a superscript of its own
supsSigned ==
  [c \in {"-", "+", "0", "1", "2", "3", "4", "5", "6", "7", "8", "9"} |->
     <<"sup" \o c>>]

\* the table sups
sups ==
  [c \in {"-", "+", "0", "1", "2", "3", "4", "5", "6", "7", "8", "9"} |->
     CASE c = "-" -> <<"sup-">>
       [] c = "+" -> <<>>
       [] OTHER -> <<"sup" \o c>>]

\* subsetOn(dict)(key): dict[key], undefined for a key the dictionary lacks
subsetOn(dict, key) == IF key \in DOMAIN dict THEN Str(dict[key]) ELSE Undefined

\* Array.prototype.join(""): undefined elements are joined as empty strings
RECURSIVE join(_)
join(array) ==
  IF array = <<>> THEN <<>>
  ELSE (IF Head(array).t = "undefined" THEN <<>> ELSE Head(array).s) \o join(Tail(array))

\* String.prototype.split(sep) for a one-character separator: the
\* substrings between the separators, at least one
RECURSIVE split(_, _)
split(s, sep) ==
  IF \A i \in 1..Len(s) : s[i] # sep THEN <<s>>
  ELSE LET k == CHOOSE i \in 1..Len(s) : s[i] = sep /\ \A j \in 1..(i - 1) : s[j] # sep
       IN  <<SubSeq(s, 1, k - 1)>> \o split(SubSeq(s, k + 1, Len(s)), sep)

\* exponentialToSuperscript with the exponent left as it was written
exponentialToSuperscriptPlain(n) ==
  LET parts == split(n, "e")
  IN  IF Len(parts) < 2 THEN Throw("TypeError")
      ELSE Return(parts[1] \o <<"TIMES", "1", "0">> \o parts[2])

\* convertToSuperscript with undefined read as the empty string
convertToSuperscriptLenient(n) ==
  IF n.t = "undefined" THEN Return(<<>>)
  ELSE Return(join([i \in 1..Len(n.s) |-> subsetOn(sups, n.s[i])]))

\* convertToSuperscript(n): n.split("") throws a TypeError when n is undefined
convertToSuperscript(n) ==
  IF n.t = "undefined" THEN Throw("TypeError")
  ELSE Return(join([i \in 1..Len(n.s) |-> subsetOn(sups, n.s[i])]))

exponentialToSuperscript(n) ==
  LET parts == split(n, "e")
      base == parts[1]
      exponent == IF Len(parts) >= 2 THEN Str(parts[2]) ELSE Undefined
      converted == convertToSuperscript(exponent)
  IN  IF converted.kind = "throw" THEN converted
      ELSE Return(base \o <<"TIMES", "1", "0">> \o converted.value)

(***************************************************************************)
(* seq                                                                     *)
(***************************************************************************)
\* the optional argument length: omitted, or a number
NoLength == [t |-> "undefined", v |-> 0]
Length(k) == [t |-> "number", v |-> k]

\* Math.abs
MathAbs(x) == IF Lt(x, Int2Num(0)) THEN Neg(x) ELSE x

\* Array.from(Array(length), (_, i) => start + sign * inc * i)
seqFrom(start, sign, inc, length) ==
  [k \in 1..length |-> Add(start, Mul(Mul(sign, inc), Int2Num(k - 1)))]

\* the constants of seq, one operator for each: length, then inc and sign
seqLength(start, end, range, length) ==
  seqFrom(start,
          IF Le(start, end) THEN Int2Num(1) ELSE Int2Num(-1),
          Div(range, Int2Num(length - 1)),
          length)

seqRange(start, end, range, length) ==
  seqLength(start, end, range,
            IF length.t = "undefined" THEN ToInt(Ceil(range)) + 1 ELSE length.v)

\* seq(start, end, length), length a number or undefined
seq(start, end, length) == seqRange(start, end, MathAbs(Sub(end, start)), length)

(***************************************************************************)
(* orderBy                                                                 *)
(***************************************************************************)
\* Array.prototype.indexOf: the first index (from 0) of value, -1 if absent
indexOf(array, value) ==
  IF \E i \in 1..Len(array) : array[i] = value
    THEN (CHOOSE i \in 1..Len(array) :
            array[i] = value /\ \A j \in 1..(i - 1) : array[j] # value) - 1
    ELSE -1

\* the comparator orderBy passes to sort
orderCompare(result, orderArray, a, b) ==
  Sign(orderArray[indexOf(result, a) + 1] - orderArray[indexOf(result, b) + 1])

\* Array.prototype.sort: the elements are read first, sorted by the
\* comparator and written back; the sort is stable, so for a consistent
\* comparator its result is that of inserting the elements one by one, each
\* behind the elements that do not compare greater. result is the array the
\* comparator reads; it is not written to before the sort has ended.
RECURSIVE sortInsert(_, _, _, _)
sortInsert(sorted, x, result, orderArray) ==
  IF sorted = <<>> THEN <<x>>
  ELSE IF orderCompare(result, orderArray, sorted[Len(sorted)], x) > 0
         THEN Append(sortInsert(SubSeq(sorted, 1, Len(sorted) - 1), x, result, orderArray),
                     sorted[Len(sorted)])
         ELSE Append(sorted, x)

RECURSIVE sort(_, _, _)
sort(k, result, orderArray) ==
  IF k = 0 THEN <<>>
  ELSE sortInsert(sort(k - 1, result, orderArray), result[k], result, orderArray)

orderBy(array, orderArray) == sort(Len(array), array, orderArray)

(***************************************************************************)
(* throttle                                                                *)
(***************************************************************************)
\* the throttled function with lastTime set by every call
throttledRestarting(now, lastTime, period) ==
  [fire |-> ~(now - lastTime < period), lastTime |-> now]

\* one call of the function throttle returns, at the clock reading now:
\* whether fn is invoked, and the value of lastTime after the call
throttled(now, lastTime, period) ==
  IF now - lastTime < period
    THEN [fire |-> FALSE, lastTime |-> lastTime]
    ELSE [fire |-> TRUE, lastTime |-> now]

(***************************************************************************)
(* The calls: the initial state holds a function name and its arguments,   *)
(* and the function's action applies it.                                   *)
(***************************************************************************)
VARIABLES pc, fn, args, outcome

\* the state of a throttled function: the clock new Date().getTime() reads,
\* the closure's lastTime, the calls made so far (at which reading, with
\* which arguments, fn invoked or not) and the invocations of fn so far
VARIABLES clock, lastTime, calls, invoked

throttleVars == <<clock, lastTime, calls, invoked>>

vars == <<pc, fn, args, outcome, clock, lastTime, calls, invoked>>

\* denominators of the numeric arguments
Dens == {1, 10}

\* the numeric arguments min and max
Numbers == {Rat(a, q) : a \in (-MaxAbs)..MaxAbs, q \in Dens}

\* the binary64 arguments min and max
Numbers64 == {F64OfRatio(a, 1) : a \in (-MaxAbs64)..MaxAbs64}

\* the argument n of prettyBreaks
Counts == (-2)..MaxN

\* the characters of the string arguments
Alphabet == {"2", "4", "-", "+", "e", "x"}

\* the scientific-notation strings of the documented scenarios
Examples == {<<"1", ".", "2", "e", "4">>, <<"3", ".", "4", "e", "-", "5">>}

\* the strings made only of the characters of the table sups
Exponents == UNION {[1..k -> DOMAIN sups] : k \in 0..MaxExp}

Strings == UNION {[1..k -> Alphabet] : k \in 0..MaxLen} \cup Examples \cup Exponents

\* the argument period of throttle
Periods == (-1)..MaxPeriod

\* the arguments passed to the throttled function
Payloads == {"a", "b"}

\* the elements of the arrays passed to orderBy, and the numbers of orderArray
Items == {"a", "b", "c"}
Ranks == 1..3

\* the arguments start and end of seq, and its optional argument length
Ends == (-MaxSeq)..MaxSeq
Lengths == {NoLength} \cup {Length(k) : k \in 0..MaxSeq}

None == [kind |-> "none", value |-> <<>>]

Init ==
  /\ pc = "call"
  /\ outcome = None
  /\ clock = 0
  /\ lastTime = 0
  /\ calls = <<>>
  /\ invoked = <<>>
  /\ \/ fn = "invertRange"
        /\ args \in (Numbers \X Numbers) \cup (Numbers64 \X Numbers64)
     \/ fn = "prettyBreaks"
        /\ args \in (Numbers \X Numbers \X Counts) \cup (Numbers64 \X Numbers64 \X Counts)
     \/ fn = "convertToSuperscript" /\ args \in {<<s>> : s \in Strings}
     \/ fn = "exponentialToSuperscript" /\ args \in {<<s>> : s \in Strings}
     \/ fn = "seq" /\ args \in Ends \X Ends \X Lengths
     \/ fn = "orderBy"
        /\ args \in UNION {[1..k -> Items] \X [1..k -> Ranks] : k \in 0..MaxArray}
     \/ fn = "throttle" /\ args \in {<<period>> : period \in Periods}

InvertRange ==
  /\ pc = "call" /\ fn = "invertRange"
  /\ outcome' = Return(invertRange(args[1], args[2]))
  /\ pc' = "done"
  /\ UNCHANGED <<fn, args>>
  /\ UNCHANGED throttleVars

PrettyBreaks ==
  /\ pc = "call" /\ fn = "prettyBreaks"
  /\ outcome' = Return(prettyBreaks(args[1], args[2], Int2Num(args[3])))
  /\ pc' = "done"
  /\ UNCHANGED <<fn, args>>
  /\ UNCHANGED throttleVars

ConvertToSuperscript ==
  /\ pc = "call" /\ fn = "convertToSuperscript"
  /\ outcome' = convertToSuperscript(Str(args[1]))
  /\ pc' = "done"
  /\ UNCHANGED <<fn, args>>
  /\ UNCHANGED throttleVars

ExponentialToSuperscript ==
  /\ pc = "call" /\ fn = "exponentialToSuperscript"
  /\ outcome' = exponentialToSuperscript(args[1])
  /\ pc' = "done"
  /\ UNCHANGED <<fn, args>>
  /\ UNCHANGED throttleVars

SeqCall ==
  /\ pc = "call" /\ fn = "seq"
  /\ outcome' = Return(seq(Int2Num(args[1]), Int2Num(args[2]), args[3]))
  /\ pc' = "done"
  /\ UNCHANGED <<fn, args>>
  /\ UNCHANGED throttleVars

OrderBy ==
  /\ pc = "call" /\ fn = "orderBy"
  /\ outcome' = Return(orderBy(args[1], args[2]))
  /\ pc' = "done"
  /\ UNCHANGED <<fn, args>>
  /\ UNCHANGED throttleVars

\* throttle(fn, period) sets lastTime to 0 and returns the throttled function
Throttle ==
  /\ pc = "call" /\ fn = "throttle"
  /\ lastTime' = 0
  /\ outcome' = Return("throttled")
  /\ pc' = "throttled"
  /\ UNCHANGED <<fn, args, clock, calls, invoked>>

\* time passes
Tick ==
  /\ fn = "throttle"
  /\ clock < MaxTime
  /\ \E t \in (clock + 1)..MaxTime : clock' = t
  /\ UNCHANGED <<pc, fn, args, outcome, lastTime, calls, invoked>>

\* one call of the throttled function with the argument a
ThrottledCall ==
  /\ pc = "throttled"
  /\ Len(calls) < MaxCalls
  /\ \E a \in Payloads :
       LET after == throttled(clock, lastTime, args[1])
       IN  /\ lastTime' = after.lastTime
           /\ invoked' = IF after.fire
                            THEN Append(invoked, [at |-> clock, args |-> a])
                            ELSE invoked
           /\ calls' = Append(calls, [at |-> clock, args |-> a, fired |-> after.fire])
  /\ UNCHANGED <<pc, fn, args, outcome, clock>>

Next ==
  \/ InvertRange
  \/ PrettyBreaks
  \/ ConvertToSuperscript
  \/ ExponentialToSuperscript
  \/ SeqCall
  \/ OrderBy
  \/ Throttle
  \/ Tick
  \/ ThrottledCall

Spec == Init /\ [][Next]_vars

(***************************************************************************)
(* Properties.                                                             *)
(***************************************************************************)
\* the call of f has returned or thrown
Called(f) == pc = "done" /\ fn = f

\* a call prettyBreaks(min, max, n) with min < max and n >= 1 has ended
ValidBreaksCall == Called("prettyBreaks") /\ Lt(args[1], args[2]) /\ args[3] >= 1

\* the sequence q of numbers equals the sequence ints of integers
EqualsInts(q, ints) ==
  Len(q) = Len(ints) /\ \A i \in 1..Len(ints) : NumEq(q[i], Int2Num(ints[i]))

\* C1: for min < max and n >= 1, prettyBreaks returns minNeat + i * unitNeat
\* for i = 0..newN followed by one more maxNeat, newN + 2 values in all, with
\* unitNeat the selected step, minNeat = ceil(min / unitNeat) * unitNeat,
\* maxNeat = floor(max / unitNeat) * unitNeat and
\* newN = round((maxNeat - minNeat) / unitNeat); prettyBreaks(0, 10, 4) is
\* [0, 2, 4, 6, 8, 10, 10].
C1_BreaksSequence ==
  ValidBreaksCall =>
    LET unitNeat == prettyLocals(args[1], args[2], Int2Num(args[3])).unitNeat
        minNeat == Mul(Ceil(Div(args[1], unitNeat)), unitNeat)
        maxNeat == Mul(Floor(Div(args[2], unitNeat)), unitNeat)
        newN == ToInt(Round(Div(Sub(maxNeat, minNeat), unitNeat)))
        breaks == outcome.value
    IN  /\ outcome.kind = "return"
        /\ Len(breaks) = newN + 2
        /\ \A i \in 0..newN : breaks[i + 1] = Add(minNeat, Mul(Int2Num(i), unitNeat))
        /\ breaks[Len(breaks)] = maxNeat
        /\ (NumEq(args[1], Int2Num(0)) /\ NumEq(args[2], Int2Num(10)) /\ args[3] = 4
              => EqualsInts(breaks, <<0, 2, 4, 6, 8, 10, 10>>))

\* prettyBreaks(0, 10, 4) has returned its seven values
C1_Witness ==
  /\ Called("prettyBreaks")
  /\ args = <<Int2Num(0), Int2Num(10), 4>>
  /\ Len(outcome.value) = 7

\* C2: invertRange(min, max) and prettyBreaks(min, max, n) with min = max
\* report an error to the caller.
C2_DegenerateRangeReported ==
  (pc = "done" /\ fn \in {"invertRange", "prettyBreaks"} /\ NumEq(args[1], args[2]))
    => outcome.kind = "throw"

\* C3: prettyBreaks(min, max, n) with min < max and n <= 0 reports an error
\* to the caller.
C3_InvalidCountReported ==
  (Called("prettyBreaks") /\ Lt(args[1], args[2]) /\ args[3] <= 0)
    => outcome.kind = "throw"

\* C4: exponentialToSuperscript of a string without "e" ends in an error and
\* returns no string.
C4_NoSeparatorThrows ==
  (Called("exponentialToSuperscript") /\ \A i \in 1..Len(args[1]) : args[1][i] # "e")
    => outcome.kind = "throw"

\* exponentialToSuperscript("42") has thrown
C4_Witness ==
  /\ Called("exponentialToSuperscript")
  /\ args = << <<"4", "2">> >>
  /\ outcome.kind = "throw"

\* s has a character outside '-', '+', '0'..'9'
HasForeignChar(s) == \E i \in 1..Len(s) : s[i] \notin DOMAIN sups

\* the exponent part of the call: the argument of convertToSuperscript, and
\* what follows the first "e" in the argument of exponentialToSuperscript
\* (the empty string when there is no "e")
ExponentPart ==
  IF fn = "convertToSuperscript" THEN args[1]
  ELSE IF \E i \in 1..Len(args[1]) : args[1][i] = "e"
         THEN LET k == CHOOSE i \in 1..Len(args[1]) :
                         args[1][i] = "e" /\ \A j \in 1..(i - 1) : args[1][j] # "e"
              IN  SubSeq(args[1], k + 1, Len(args[1]))
         ELSE <<>>

\* C5: convertToSuperscript and exponentialToSuperscript report an error
\* when the exponent part has a character outside '-', '+', '0'..'9'.
C5_ForeignCharReported ==
  (pc = "done" /\ fn \in {"convertToSuperscript", "exponentialToSuperscript"}
     /\ HasForeignChar(ExponentPart))
    => outcome.kind = "throw"

\* C6: for min # max, invertRange(min, max) returns (newMin, newMax,
\* scaleFactor) with scaleFactor = 1 / (max - min), newMin = -min * scaleFactor
\* and newMax = scaleFactor - min * scaleFactor; invertRange(0, 10) returns
\* (0, 0.1, 0.1).
C6_InvertRangeTriple ==
  (Called("invertRange") /\ ~NumEq(args[1], args[2])) =>
    LET scaleFactor == Div(Int2Num(1), Sub(args[2], args[1]))
        tenth == IF IsF64(args[1]) THEN F64OfRatio(1, 10) ELSE Rat(1, 10)
    IN  /\ outcome = Return(<< Mul(Neg(args[1]), scaleFactor),
                               Sub(scaleFactor, Mul(args[1], scaleFactor)),
                               scaleFactor >>)
        /\ \A i \in 1..3 : IsFinite(outcome.value[i])
        /\ (~IsF64(args[1]) =>
              Mul(outcome.value[3], Sub(args[2], args[1])) = Int2Num(1))
        /\ (NumEq(args[1], Int2Num(0)) /\ NumEq(args[2], Int2Num(10))
              => /\ NumEq(outcome.value[1], Int2Num(0))
                 /\ outcome.value[2] = tenth
                 /\ outcome.value[3] = tenth)

\* invertRange(0, 10) has returned the scale factor 1/10
C6_Witness ==
  /\ Called("invertRange")
  /\ args = <<Int2Num(0), Int2Num(10)>>
  /\ outcome.value[3] = Rat(1, 10)

\* scale(v) = (v - newMin) / (newMax - newMin) for the limits returned
ScaleBy(limits, v) == Div(Sub(v, limits[1]), Sub(limits[2], limits[1]))

\* C7: in exact arithmetic, for min # max, the limits invertRange(min, max)
\* returns give scale(0) = min and scale(1) = max.
C7_InvertRangeRoundTrip ==
  (Called("invertRange") /\ ~IsF64(args[1]) /\ ~NumEq(args[1], args[2])) =>
    /\ ScaleBy(outcome.value, Int2Num(0)) = args[1]
    /\ ScaleBy(outcome.value, Int2Num(1)) = args[2]

\* invertRange(-0.7, 0.5) has returned limits that scale 1 to 0.5
C7_Witness ==
  /\ Called("invertRange")
  /\ args = <<Rat(-7, 10), Rat(1, 2)>>
  /\ ScaleBy(outcome.value, Int2Num(1)) = Rat(1, 2)

\* C8: for min < max and n >= 1, every value prettyBreaks returns lies in
\* [min, max].
C8_BreaksWithinRange ==
  ValidBreaksCall =>
    \A i \in 1..Len(outcome.value) :
      Le(args[1], outcome.value[i]) /\ Le(outcome.value[i], args[2])

\* C9: for min < max and n >= 1, the sequence prettyBreaks returns is
\* non-decreasing, and strictly increasing up to its last two elements.
C9_BreaksMonotone ==
  ValidBreaksCall =>
    /\ \A i \in 1..(Len(outcome.value) - 1) : Le(outcome.value[i], outcome.value[i + 1])
    /\ \A i \in 1..(Len(outcome.value) - 2) : Lt(outcome.value[i], outcome.value[i + 1])

\* x is 1, 2, 5 or 10 times an integer power of ten (x an exact rational)
IsNeatStep(x) ==
  \E k \in (-4)..4 : \E d \in {1, 2, 5, 10} : x = Mul(Int2Num(d), Pow10(Int2Num(k)))

\* C10: for min < max and n >= 1, the step between consecutive breaks is 1,
\* 2, 5 or 10 times an integer power of ten, and every break is an integer
\* multiple of it (steps and multiples taken in exact arithmetic).
C10_StepIsNeat ==
  (ValidBreaksCall /\ ~IsF64(args[1])) =>
    \A i \in 1..(Len(outcome.value) - 2) :
      LET step == Sub(outcome.value[i + 1], outcome.value[i])
      IN  /\ IsNeatStep(step)
          /\ \A j \in 1..Len(outcome.value) : Div(outcome.value[j], step).d = 1

\* the characters of the table, and the string s without its "+" characters
IsTableChar(c) == c \in {"-", "+", "0", "1", "2", "3", "4", "5", "6", "7", "8", "9"}
IsNotPlus(c) == c # "+"
Unsigned(s) == SelectSeq(s, IsNotPlus)

\* the reverse table: the character a superscript character stands for
Unsup(c) ==
  CASE c = "sup-" -> "-"
    [] c \in {"sup0", "sup1", "sup2", "sup3", "sup4",
              "sup5", "sup6", "sup7", "sup8", "sup9"} -> SubSeq(c, 4, 4)
    [] OTHER -> "?"

\* C11: for a string s made only of "-", "+" and digits, the empty string
\* included, convertToSuperscript(s) returns a string whose length is the
\* length of s minus the number of "+" in s and whose characters, mapped back
\* through the reverse table, spell s without its "+" characters.
C11_SuperscriptTable ==
  (Called("convertToSuperscript") /\ \A i \in 1..Len(args[1]) : IsTableChar(args[1][i]))
    => /\ outcome.kind = "return"
       /\ Len(outcome.value) = Len(Unsigned(args[1]))
       /\ [i \in 1..Len(outcome.value) |-> Unsup(outcome.value[i])] = Unsigned(args[1])

\* convertToSuperscript("+7") has returned the one character superscript 7
C11_Witness ==
  /\ Called("convertToSuperscript")
  /\ args = << <<"+", "7">> >>
  /\ outcome = Return(<<"sup7">>)

\* the position of the first "e" of s
FirstE(s) == CHOOSE i \in 1..Len(s) : s[i] = "e" /\ \A j \in 1..(i - 1) : s[j] # "e"

\* C12: for a string base + "e" + exponent with exactly one "e" and an
\* exponent made only of "-", "+" and digits, exponentialToSuperscript
\* returns base, unchanged, followed by the multiplication sign, "10" and the
\* superscript form of the exponent; "1.2e4" gives 1.2 TIMES 10 sup4 and
\* "3.4e-5" gives 3.4 TIMES 10 sup- sup5.
C12_ScientificFormat ==
  (/\ Called("exponentialToSuperscript")
   /\ Cardinality({i \in 1..Len(args[1]) : args[1][i] = "e"}) = 1
   /\ \A i \in (FirstE(args[1]) + 1)..Len(args[1]) : IsTableChar(args[1][i]))
    => LET k == FirstE(args[1])
           base == SubSeq(args[1], 1, k - 1)
           exponent == SubSeq(args[1], k + 1, Len(args[1]))
           tail == SubSeq(outcome.value, k + 3, Len(outcome.value))
       IN  /\ outcome.kind = "return"
           /\ Len(outcome.value) = Len(base) + 3 + Len(Unsigned(exponent))
           /\ SubSeq(outcome.value, 1, k + 2) = base \o <<"TIMES", "1", "0">>
           /\ [i \in 1..Len(tail) |-> Unsup(tail[i])] = Unsigned(exponent)
           /\ (args[1] = <<"1", ".", "2", "e", "4">>
                 => outcome.value = <<"1", ".", "2", "TIMES", "1", "0", "sup4">>)
           /\ (args[1] = <<"3", ".", "4", "e", "-", "5">>
                 => outcome.value = <<"3", ".", "4", "TIMES", "1", "0", "sup-", "sup5">>)

\* exponentialToSuperscript("3.4e-5") has returned its eight characters
C12_Witness ==
  /\ Called("exponentialToSuperscript")
  /\ args = << <<"3", ".", "4", "e", "-", "5">> >>
  /\ Len(outcome.value) = 8

\* the clock reading of the last call before call k that invoked fn, 0 if
\* there is none
LastFireBefore(k) ==
  LET fires == {j \in 1..(k - 1) : calls[j].fired}
  IN  IF fires = {} THEN 0
      ELSE calls[CHOOSE j \in fires : \A i \in fires : i <= j].at

\* the calls that invoked fn, in order, without their fired flag
RECURSIVE FiredCalls(_)
FiredCalls(k) ==
  IF k = 0 THEN <<>>
  ELSE IF calls[k].fired
         THEN Append(FiredCalls(k - 1), [at |-> calls[k].at, args |-> calls[k].args])
         ELSE FiredCalls(k - 1)

\* C13: of the calls of a throttled function made at non-decreasing clock
\* readings, a call invokes fn, with its own arguments, if and only if at
\* least period ms have passed since the last call that invoked fn (since 0
\* for the first); two invocations of fn are at least period ms apart; a
\* suppressed call is never invoked later and leaves lastTime as it was.
C13_ThrottleFires ==
  pc = "throttled" =>
    /\ \A k \in 1..Len(calls) :
         calls[k].fired <=> calls[k].at - LastFireBefore(k) >= args[1]
    /\ invoked = FiredCalls(Len(calls))
    /\ \A i \in 1..Len(invoked) : \A j \in (i + 1)..Len(invoked) :
         invoked[j].at - invoked[i].at >= args[1]
    /\ lastTime = LastFireBefore(Len(calls) + 1)

\* with period 3, a call at 3 invoked fn, a call at 4 was suppressed and a
\* call at 5 was suppressed as well
C13_Witness ==
  /\ pc = "throttled" /\ args = <<3>>
  /\ Len(calls) = 3 /\ Len(invoked) = 1
  /\ calls[1].at = 3 /\ calls[1].fired
  /\ calls[2].at = 4 /\ ~calls[2].fired
  /\ calls[3].at = 5 /\ ~calls[3].fired

\* the bijections of 1..n onto itself
Bijections(n) == {p \in [1..n -> 1..n] : \A i, j \in 1..n : p[i] = p[j] => i = j}

\* C14: orderBy(array, orderArray), orderArray as long as array, returns a
\* permutation of array in which the element that was at index i comes before
\* the element that was at index j whenever orderArray[i] < orderArray[j],
\* and leaves array as it was.
C14_OrderByOrders ==
  Called("orderBy") =>
    /\ outcome.kind = "return"
    /\ Len(outcome.value) = Len(args[1])
    /\ \E p \in Bijections(Len(args[1])) :
         /\ \A i \in 1..Len(args[1]) : outcome.value[p[i]] = args[1][i]
         /\ \A i, j \in 1..Len(args[1]) : args[2][i] < args[2][j] => p[i] < p[j]

\* C15: for integers start and end, start = end included, seq(start, end)
\* without a length returns the integers from start to end, ascending when
\* end >= start and descending otherwise: |end - start| + 1 elements, the
\* first of them start and the last of them end.
C15_SeqOfIntegers ==
  (Called("seq") /\ args[3] = NoLength) =>
    LET start == args[1]
        end == args[2]
        step == IF end >= start THEN 1 ELSE -1
    IN  /\ outcome.kind = "return"
        /\ Len(outcome.value) = Abs(end - start) + 1
        /\ \A k \in 1..Len(outcome.value) :
             outcome.value[k] = Int2Num(start + step * (k - 1))
        /\ outcome.value[1] = Int2Num(start)
        /\ outcome.value[Len(outcome.value)] = Int2Num(end)

\* the squared distance of the candidate d * 10^base from unitGross
NeatDist(d, base, unitGross) ==
  Square(Sub(Mul(Int2Num(d), Pow10(base)), unitGross))

\* dists[k] is a least distance, and less than every distance before it
IsFirstNearest(dists, k) ==
  /\ \A j \in 1..Len(dists) : ~Lt(dists[j], dists[k])
  /\ \A j \in 1..(k - 1) : Lt(dists[k], dists[j])

\* neatValue is the first of the candidates at the least of their distances
SelectsFirstNearest(candidates, neatValue, dists) ==
  \E k \in 1..Len(candidates) :
    neatValue = candidates[k] /\ IsFirstNearest(dists, k)

\* the constants locals of a call with the given unitGross are as claimed
FirstMinimumWins(candidates, locals, unitGross) ==
  /\ locals.unitGross = unitGross
  /\ locals.base = FloorLog10(unitGross)
  /\ SelectsFirstNearest(candidates, locals.neatValue,
                         [j \in 1..Len(candidates) |->
                            NeatDist(candidates[j], locals.base, unitGross)])
  /\ \A example \in {<<3, 1>>, <<6, 2>>, <<9, 4>>, <<15, 5>>} :
       NumEq(unitGross, Rat(example[1], 2)) => locals.neatValue = example[2]

\* unitGross is finite and greater than 0
PositiveGross(unitGross) == IsFinite(unitGross) /\ Lt(Int2Num(0), unitGross)

====
